---- MODULE Spec2Model ----
(***************************************************************************)
(* A model of the first-person character controller (player_movement.rs),  *)
(* of the transient and persistent spawned bodies (ball.rs, cube.rs) and   *)
(* of the schedule main.rs and PlayerPlugin::build register them in.       *)
(*                                                                         *)
(* Numbers are fixed point.  Angles are integers of microradians; vectors, *)
(* speeds and the damping factor are integers of 1/1000; pointer deltas    *)
(* are integers of 1/1000 pointer unit; the frame delta is in milliseconds *)
(* and the wall clock (Utc::now) in whole seconds.  A product is rounded   *)
(* to the nearest representable value, as an f32 product is; the 1/1000    *)
(* of a speed stands for the smallest speed f32 tells from zero.           *)
(***************************************************************************)
EXTENDS Integers, FiniteSets, Sequences, TLC

VARIABLES
    ran,         \* history: the system, observer or step that ran last
    firesInTick, \* history: fire triggers handled since the last fixed tick
    velocityWriters, \* history: the handlers that wrote LinearVelocity so far
                     \* in the running frame
    player,      \* TRUE iff the entity carrying the Player marker exists
    movement,    \* the avatar's MovementBundle components
    transform,   \* the avatar's Transform: translation and rotation
    velocity,    \* the avatar's LinearVelocity
    grounded,    \* TRUE iff the avatar carries the Grounded marker
    hits,        \* the avatar's ShapeHits: the normal2 of each hit of the caster
    bodies,      \* the spawned entities: balls (BallBundle) and cubes (CubeBundle)
    nextEntity,  \* the next fresh Entity id
    clock,       \* the wall clock Utc::now() reads, in seconds
    phase        \* the place of the running frame in the schedule

vars == <<ran, firesInTick, velocityWriters, player, movement, transform,
          velocity, grounded, hits, bodies, nextEntity, clock, phase>>

----------------------------------------------------------------------------
(* Bounds of the model. *)

\* Utc::now() stops advancing at MaxTime seconds.
MaxTime == 5

\* No more than MaxSpawns entities are ever spawned by the fire handlers.
MaxSpawns == 2

----------------------------------------------------------------------------
(* Scalars and angles. *)

\* avian3d::math::FRAC_PI_2, in microradians.
FRAC_PI_2 == 1570796

PI == 2 * FRAC_PI_2

TAU == 4 * FRAC_PI_2

\* The 0.01 rad kept between the pitch and the poles.
PITCH_EPSILON == 10000

\* A pitch limit at the pole itself: the epsilon forgotten.
PITCH_LIMIT_at_pole == FRAC_PI_2

\* const PITCH_LIMIT: f32 = FRAC_PI_2 - 0.01;
PITCH_LIMIT == FRAC_PI_2 - PITCH_EPSILON

\* An angle brought into (-PI, PI], as atan2 returns it.
WrapAngle(a) ==
    LET m == a % TAU IN IF m > PI THEN m - TAU ELSE m

\* f32::clamp.
Clamp(v, lo, hi) ==
    IF v < lo THEN lo ELSE IF v > hi THEN hi ELSE v

\* sin of m/10000 rad for 0 <= m/10000 <= pi/2, in 1/1000 (Taylor series).
SinQ(m) ==
    LET m2 == (m * m) \div 10000
        t3 == (m2 * m) \div 60000
        t5 == (t3 * m2) \div 200000
        t7 == (t5 * m2) \div 420000
        t9 == (t7 * m2) \div 720000
    IN  (m - t3 + t5 - t7 + t9 + 5) \div 10

\* sin of an angle in microradians, in 1/1000.
Sin(a) ==
    LET w == WrapAngle(a)
        s == IF w < 0 THEN -1 ELSE 1
        u == s * w
        r == IF u > FRAC_PI_2 THEN PI - u ELSE u
    IN  s * SinQ(r \div 100)

Cos(a) == Sin(a + FRAC_PI_2)

\* The angle in [0, PI] whose cosine is c/1000: bisection on Cos, which
\* decreases on [0, PI].
RECURSIVE ACosSearch(_, _, _)
ACosSearch(c, lo, hi) ==
    IF hi - lo <= 1 THEN lo
    ELSE LET mid == (lo + hi) \div 2
         IN  IF Cos(mid) >= c THEN ACosSearch(c, mid, hi)
             ELSE ACosSearch(c, lo, mid)

ACos(c) ==
    IF c >= 1000 THEN 0 ELSE IF c <= -1000 THEN PI ELSE ACosSearch(c, 0, PI)

\* Integer square root (Newton's iteration from above).
RECURSIVE SqrtIter(_, _)
SqrtIter(n, r) ==
    LET q == (r + n \div r) \div 2
    IN  IF q >= r THEN r ELSE SqrtIter(n, q)

ISqrt(n) == IF n <= 0 THEN 0 ELSE SqrtIter(n, n)

\* f32::abs.
Abs(a) == IF a < 0 THEN -a ELSE a

\* Division rounding to nearest, for either sign of the dividend.
RoundDiv(a, d) ==
    IF a >= 0 THEN (a + d \div 2) \div d ELSE -((-a + d \div 2) \div d)

\* Division rounding to nearest with ties to even, the rounding of an f32
\* product.
RoundHalfEven(a, d) ==
    LET n == Abs(a)
        q == n \div d
        r == n % d
        m == IF 2 * r > d \/ (2 * r = d /\ q % 2 = 1) THEN q + 1 ELSE q
    IN  IF a >= 0 THEN m ELSE -m

----------------------------------------------------------------------------
(* Vectors (Vec3) and rotations (Quat, kept as its YXZ Euler angles). *)

Vec3(a, b, c) == [x |-> a, y |-> b, z |-> c]

ZERO == Vec3(0, 0, 0)

\* Vector::Y
Y == Vec3(0, 1000, 0)

VAdd(v, w) == Vec3(v.x + w.x, v.y + w.y, v.z + w.z)

VNeg(v) == Vec3(-v.x, -v.y, -v.z)

Dot(v, w) == v.x * w.x + v.y * w.y + v.z * w.z

Length(v) == ISqrt(Dot(v, v))

\* Not-a-number, which f32 division of 0 by 0 gives.
NaN == -(2 ^ 30)

NaNVec == Vec3(NaN, NaN, NaN)

IsNaN(v) == v.x = NaN \/ v.y = NaN \/ v.z = NaN

\* f32 addition: a sum with a NaN operand is NaN.
FAdd(a, b) == IF a = NaN \/ b = NaN THEN NaN ELSE a + b

\* Vec3::normalize: v * (1 / |v|), with no guard for |v| = 0.
Normalize(v) ==
    LET len == Length(v)
    IN  IF len = 0 \/ IsNaN(v) THEN NaNVec
        ELSE Vec3(RoundDiv(v.x * 1000, len), RoundDiv(v.y * 1000, len),
                  RoundDiv(v.z * 1000, len))

\* Quat::from_euler(EulerRot::YXZ, yaw, pitch, roll).  The quaternion is kept
\* as the angles to_euler gives back for it: yaw and roll in (-PI, PI] and
\* pitch in [-PI/2, PI/2].  A pitch beyond a pole is the same rotation as
\* the pitch mirrored at the pole with yaw and roll turned by PI.
from_euler(yaw, pitch, roll) ==
    LET p == WrapAngle(pitch)
    IN  IF p > FRAC_PI_2
        THEN [yaw |-> WrapAngle(yaw + PI), pitch |-> PI - p,
              roll |-> WrapAngle(roll + PI)]
        ELSE IF p < -FRAC_PI_2
        THEN [yaw |-> WrapAngle(yaw + PI), pitch |-> -PI - p,
              roll |-> WrapAngle(roll + PI)]
        ELSE [yaw |-> WrapAngle(yaw), pitch |-> p, roll |-> WrapAngle(roll)]

\* Quat::to_euler(EulerRot::YXZ)
to_euler(q) == <<q.yaw, q.pitch, q.roll>>

\* Quat::IDENTITY
IDENTITY == from_euler(0, 0, 0)

\* Rotations about the Z, X and Y axes by an angle, on a vector.
RotZ(a, v) ==
    Vec3(RoundDiv(v.x * Cos(a) - v.y * Sin(a), 1000),
         RoundDiv(v.x * Sin(a) + v.y * Cos(a), 1000), v.z)

RotX(a, v) ==
    Vec3(v.x, RoundDiv(v.y * Cos(a) - v.z * Sin(a), 1000),
         RoundDiv(v.y * Sin(a) + v.z * Cos(a), 1000))

RotY(a, v) ==
    Vec3(RoundDiv(v.x * Cos(a) + v.z * Sin(a), 1000), v.y,
         RoundDiv(v.z * Cos(a) - v.x * Sin(a), 1000))

\* Quat * Vec3 for the YXZ order: roll innermost, yaw outermost.
Rotate(q, v) == RotY(q.yaw, RotX(q.pitch, RotZ(q.roll, v)))

\* Transform::forward: the rotation applied to Vec3::NEG_Z.
Forward(t) == Rotate(t.rotation, Vec3(0, 0, -1000))

\* Transform::right: the rotation applied to Vec3::X.
Right(t) == Rotate(t.rotation, Vec3(1000, 0, 0))

\* Vec3::angle_between: acos(a.b / (|a| |b|)).
angle_between(v, w) ==
    ACos(RoundDiv(Dot(v, w) * 1000, Length(v) * Length(w)))

----------------------------------------------------------------------------
(* Components and bundles. *)

\* Option<T>: Some(v) and None.
Some(v) == [some |-> TRUE, value |-> v]

None == [some |-> FALSE, value |-> 0]

\* MovementBundle::new.  The acceleration is in whole units, the damping
\* factor and the jump impulse in 1/1000, the slope angle in microradians.
MovementBundle_new(acceleration, damping, jump_impulse, max_slope_angle) ==
    [acceleration |-> acceleration, damping |-> damping,
     jump_impulse |-> jump_impulse, max_slope_angle |-> Some(max_slope_angle)]

\* MovementBundle::default: Self::new(100.0, 0.0, 7.0, PI * 0.45).
MovementBundle_default ==
    MovementBundle_new(100, 0, 7000, (PI * 45) \div 100)

\* The bundles of the avatar: the default, PlayerBundle::with_movement for a
\* slower avatar with a higher jump and a 30 degree slope limit, and the
\* default with the MaxSlopeAngle component taken off (update_grounded
\* queries it as an Option).
MovementBundles ==
    { MovementBundle_default,
      MovementBundle_new(10, 0, 15000, PI \div 6),
      [MovementBundle_default EXCEPT !.max_slope_angle = None] }

\* Bundles with each kind of damping factor MovementBundle::new takes: 0,
\* 0.4, 0.9 and 1.
DampedBundles ==
    {MovementBundle_new(100, d, 7000, (PI * 45) \div 100) :
        d \in {0, 400, 900, 1000}}

\* The seconds a ball lives: Duration::seconds(3).
DESPAWN_SECONDS == 3

\* The launch speed of a ball: forward * 100.0.
LAUNCH_SPEED == 100

\* The upward bias of the launch velocity: velocity.y += 0.1.
LAUNCH_UP == 100

\* A ball whose expiry is the time of its spawn: the lifetime not added.
BallBundle_new_no_lifetime(entity, t, now) ==
    LET f == Normalize(Forward(t))
    IN  [entity |-> entity, bundle |-> "Ball", transform |-> t,
         linear_velocity |-> Vec3(f.x * LAUNCH_SPEED, f.y * LAUNCH_SPEED + LAUNCH_UP,
                                  f.z * LAUNCH_SPEED),
         despawn_after |-> Some(now)]

\* BallBundle::new: the ball takes the transform it is given, flies along
\* its forward vector and expires DESPAWN_SECONDS after Utc::now().
BallBundle_new(entity, t, now) ==
    LET f == Normalize(Forward(t))
        v == Vec3(f.x * LAUNCH_SPEED, f.y * LAUNCH_SPEED, f.z * LAUNCH_SPEED)
    IN  [entity |-> entity, bundle |-> "Ball", transform |-> t,
         linear_velocity |-> [v EXCEPT !.y = @ + LAUNCH_UP],
         despawn_after |-> Some(now + DESPAWN_SECONDS)]

\* CubeBundle::new: the cube takes the transform it is given; the bundle
\* holds neither a LinearVelocity nor a DespawnAfter.
CubeBundle_new(entity, t) ==
    [entity |-> entity, bundle |-> "Cube", transform |-> t,
     linear_velocity |-> ZERO, despawn_after |-> None]

Entities(bs) == {b.entity : b \in bs}

----------------------------------------------------------------------------
(* The schedule.  A frame dispatches the input triggers to their observers *)
(* (PreUpdate), runs the fixed main loop zero or more times (FixedUpdate,  *)
(* then the physics step) and then the chained Update systems.             *)

Triggers == {"PlayerJump", "PlayerMove", "PlayerAction", "PlayerAltAction"}

NextPhase(p) ==
    CASE p = "PlayerJump" -> "PlayerMove"
      [] p = "PlayerMove" -> "PlayerAction"
      [] p = "PlayerAction" -> "PlayerAltAction"
      [] p = "PlayerAltAction" -> "FixedUpdate"
      [] p = "FixedUpdate" -> "FixedPostUpdate"
      [] p = "FixedPostUpdate" -> "FixedUpdate"
      [] p = "update_grounded" -> "rotate_camera"
      [] p = "rotate_camera" -> "apply_movement_damping"
      [] p = "apply_movement_damping" -> "PlayerJump"

----------------------------------------------------------------------------
(* The systems and observers of PlayerPlugin. *)

\* The closure of update_grounded: a hit counts when the caster's normal,
\* negated and turned into world space, is no steeper than the slope limit.
hit_is_walkable(hit, rotation, max_slope_angle) ==
    IF max_slope_angle.some
    THEN Abs(angle_between(Rotate(rotation, VNeg(hit)), Y)) <= max_slope_angle.value
    ELSE TRUE

is_grounded(hs, rotation, max_slope_angle) ==
    \E hit \in hs : hit_is_walkable(hit, rotation, max_slope_angle)

\* A probe that inserts Grounded and never removes it.
update_grounded_sticky ==
    /\ phase = "update_grounded"
    /\ grounded' = IF player
                   THEN grounded \/ is_grounded(hits, transform.rotation,
                                                movement.max_slope_angle)
                   ELSE grounded
    /\ phase' = NextPhase(phase)
    /\ ran' = "update_grounded"
    /\ UNCHANGED <<velocityWriters, firesInTick, player, movement, transform,
                   velocity, hits, bodies, nextEntity, clock>>

\* A probe that makes up for a jump missed in the air: on landing it
\* applies the jump impulse.
update_grounded_jump_on_landing ==
    /\ phase = "update_grounded"
    /\ grounded' = IF player
                   THEN is_grounded(hits, transform.rotation, movement.max_slope_angle)
                   ELSE grounded
    /\ velocity' = IF player /\ ~grounded /\ grounded'
                   THEN [velocity EXCEPT !.y = movement.jump_impulse]
                   ELSE velocity
    /\ phase' = NextPhase(phase)
    /\ ran' = "update_grounded"
    /\ UNCHANGED <<velocityWriters, firesInTick, player, movement, transform,
                   hits, bodies, nextEntity, clock>>

\* update_grounded, with its commands applied (the chain puts a sync point
\* before rotate_camera): Grounded is inserted or removed on every entity
\* of the query.  The physics Rotation the query reads is taken to be the
\* rotation of the Transform.
update_grounded ==
    /\ phase = "update_grounded"
    /\ grounded' = IF player
                   THEN is_grounded(hits, transform.rotation, movement.max_slope_angle)
                   ELSE grounded
    /\ phase' = NextPhase(phase)
    /\ ran' = "update_grounded"
    /\ UNCHANGED <<velocityWriters, firesInTick, player, movement, transform,
                   velocity, hits, bodies, nextEntity, clock>>

\* A move handler that uses forward and right as they are, pitched, without
\* flattening and renormalizing them.
move_velocity_unprojected(intent, time_delta, acceleration, v, t) ==
    LET forward == Forward(t)
        right == Right(t)
        relx == RoundDiv(intent.y * forward.x + intent.x * right.x, 1000)
        relz == RoundDiv(intent.y * forward.z + intent.x * right.z, 1000)
    IN  [v EXCEPT !.x = FAdd(@, RoundDiv(relx * acceleration * time_delta, 1000)),
                  !.z = FAdd(@, RoundDiv(relz * acceleration * time_delta, 1000))]

\* The velocity handle_player_move leaves, for a Fired<PlayerMove> of value
\* `intent` in a frame of `time_delta` milliseconds.  Nothing guards the
\* two normalize() calls: a NaN direction reaches velocity.x and .z.
move_velocity(intent, time_delta, acceleration, v, t) ==
    LET forward == Normalize([Forward(t) EXCEPT !.y = 0])
        right == Normalize([Right(t) EXCEPT !.y = 0])
        relx == RoundDiv(intent.y * forward.x + intent.x * right.x, 1000)
        relz == RoundDiv(intent.y * forward.z + intent.x * right.z, 1000)
    IN  IF IsNaN(forward) \/ IsNaN(right)
        THEN [v EXCEPT !.x = NaN, !.z = NaN]
        ELSE [v EXCEPT
                !.x = FAdd(@, RoundDiv(relx * acceleration * time_delta, 1000)),
                !.z = FAdd(@, RoundDiv(relz * acceleration * time_delta, 1000))]

\* A move handler that also takes the Grounded marker off the avatar.
handle_player_move_ungrounds(intent, time_delta) ==
    /\ phase = "PlayerMove"
    /\ velocity' = IF player
                   THEN move_velocity(intent, time_delta, movement.acceleration,
                                      velocity, transform)
                   ELSE velocity
    /\ grounded' = IF player THEN FALSE ELSE grounded
    /\ velocityWriters' = IF player
                          THEN velocityWriters \cup {"handle_player_move"}
                          ELSE velocityWriters
    /\ phase' = NextPhase(phase)
    /\ ran' = "handle_player_move"
    /\ UNCHANGED <<firesInTick, player, movement, transform, hits, bodies,
                   nextEntity, clock>>

\* handle_player_move, for a Fired<PlayerMove> of value `intent` in a frame
\* of `time_delta` milliseconds.
handle_player_move(intent, time_delta) ==
    /\ phase = "PlayerMove"
    /\ velocity' = IF player
                   THEN move_velocity(intent, time_delta, movement.acceleration,
                                      velocity, transform)
                   ELSE velocity
    /\ velocityWriters' = IF player
                          THEN velocityWriters \cup {"handle_player_move"}
                          ELSE velocityWriters
    /\ phase' = NextPhase(phase)
    /\ ran' = "handle_player_move"
    /\ UNCHANGED <<firesInTick, player, movement, transform, grounded, hits,
                   bodies, nextEntity, clock>>

\* A jump that is not gated by Grounded.
handle_player_jump_ungated ==
    /\ phase = "PlayerJump"
    /\ velocity' = IF player
                   THEN [velocity EXCEPT !.y = movement.jump_impulse]
                   ELSE velocity
    /\ velocityWriters' = IF player
                          THEN velocityWriters \cup {"handle_player_jump"}
                          ELSE velocityWriters
    /\ phase' = NextPhase(phase)
    /\ ran' = "handle_player_jump"
    /\ UNCHANGED <<firesInTick, player, movement, transform, grounded, hits,
                   bodies, nextEntity, clock>>

\* handle_player_jump, for a Fired<PlayerJump>.
handle_player_jump ==
    /\ phase = "PlayerJump"
    /\ velocity' = IF player /\ grounded
                   THEN [velocity EXCEPT !.y = movement.jump_impulse]
                   ELSE velocity
    /\ velocityWriters' = IF player /\ grounded
                          THEN velocityWriters \cup {"handle_player_jump"}
                          ELSE velocityWriters
    /\ phase' = NextPhase(phase)
    /\ ran' = "handle_player_jump"
    /\ UNCHANGED <<firesInTick, player, movement, transform, grounded, hits,
                   bodies, nextEntity, clock>>

\* linear_velocity.x += damping_factor.0: the factor added, not multiplied.
damped_added(v, damping_factor) ==
    IF v = NaN THEN NaN ELSE v + damping_factor

\* linear_velocity.x *= damping_factor.0
damped(v, damping_factor) ==
    IF v = NaN THEN NaN ELSE RoundHalfEven(v * damping_factor, 1000)

\* A damping pass over all three axes.
apply_movement_damping_all_axes ==
    /\ phase = "apply_movement_damping"
    /\ velocity' = IF player
                   THEN [velocity EXCEPT !.x = damped(@, movement.damping),
                                         !.y = damped(@, movement.damping),
                                         !.z = damped(@, movement.damping)]
                   ELSE velocity
    /\ velocityWriters' = {}
    /\ phase' = NextPhase(phase)
    /\ ran' = "apply_movement_damping"
    /\ UNCHANGED <<firesInTick, player, movement, transform, grounded, hits,
                   bodies, nextEntity, clock>>

\* apply_movement_damping: the query matches the avatar alone, the one
\* entity with a MovementDampingFactor.
apply_movement_damping ==
    /\ phase = "apply_movement_damping"
    /\ velocity' = IF player
                   THEN [velocity EXCEPT !.x = damped(@, movement.damping),
                                         !.z = damped(@, movement.damping)]
                   ELSE velocity
    /\ velocityWriters' = {}
    /\ phase' = NextPhase(phase)
    /\ ran' = "apply_movement_damping"
    /\ UNCHANGED <<firesInTick, player, movement, transform, grounded, hits,
                   bodies, nextEntity, clock>>

\* let sensitivity = Vec2::new(0.003, 0.002): microradians per 1/1000
\* pointer unit.
SENSITIVITY_X == 3

SENSITIVITY_Y == 2

\* A look update that hands pitch and roll to from_euler in the wrong order.
look_rotation_swapped(rotation, delta) ==
    LET e == to_euler(rotation)
        yaw == e[1] - delta.x * SENSITIVITY_X
        pitch == Clamp(e[2] - delta.y * SENSITIVITY_Y, -PITCH_LIMIT, PITCH_LIMIT)
    IN  from_euler(yaw, e[3], pitch)

\* The rotation rotate_camera writes for a pointer delta other than zero.
look_rotation(rotation, delta) ==
    LET delta_yaw == -delta.x * SENSITIVITY_X
        delta_pitch == -delta.y * SENSITIVITY_Y
        e == to_euler(rotation)
        yaw == e[1] + delta_yaw
        pitch == Clamp(e[2] + delta_pitch, -PITCH_LIMIT, PITCH_LIMIT)
        roll == e[3]
    IN  from_euler(yaw, pitch, roll)

\* rotate_camera, for AccumulatedMouseMotion of `delta`.
rotate_camera(delta) ==
    /\ phase = "rotate_camera"
    /\ transform' = IF player /\ delta # [x |-> 0, y |-> 0]
                    THEN [transform EXCEPT
                            !.rotation = look_rotation(transform.rotation, delta)]
                    ELSE transform
    /\ phase' = NextPhase(phase)
    /\ ran' = "rotate_camera"
    /\ UNCHANGED <<velocityWriters, firesInTick, player, movement, velocity,
                   grounded, hits, bodies, nextEntity, clock>>

\* The transform both fire handlers spawn at: a copy of the avatar's with
\* `transform.translation += forward`.
spawn_transform(t) ==
    [t EXCEPT !.translation = VAdd(@, Forward(t))]

\* A fire handler that keeps one ball at a time: the new ball replaces the
\* balls there are.
handle_player_action_dedup ==
    /\ phase = "PlayerAction"
    /\ player => nextEntity < MaxSpawns
    /\ IF player
       THEN /\ bodies' = {b \in bodies : b.bundle # "Ball"} \cup
                  {BallBundle_new(nextEntity, spawn_transform(transform), clock)}
            /\ nextEntity' = nextEntity + 1
       ELSE UNCHANGED <<bodies, nextEntity>>
    /\ firesInTick' = IF player /\ firesInTick < 2 THEN firesInTick + 1
                      ELSE firesInTick
    /\ phase' = NextPhase(phase)
    /\ ran' = "handle_player_action"
    /\ UNCHANGED <<velocityWriters, player, movement, transform, velocity,
                   grounded, hits, clock>>

\* A fire handler that moves the avatar's own Transform forward instead
\* of a copy of it.
handle_player_action_moves_avatar ==
    /\ phase = "PlayerAction"
    /\ player => nextEntity < MaxSpawns
    /\ IF player
       THEN /\ bodies' = bodies \cup
                  {BallBundle_new(nextEntity, spawn_transform(transform), clock)}
            /\ nextEntity' = nextEntity + 1
            /\ transform' = spawn_transform(transform)
       ELSE UNCHANGED <<bodies, nextEntity, transform>>
    /\ firesInTick' = IF player /\ firesInTick < 2 THEN firesInTick + 1
                      ELSE firesInTick
    /\ phase' = NextPhase(phase)
    /\ ran' = "handle_player_action"
    /\ UNCHANGED <<velocityWriters, player, movement, velocity, grounded, hits,
                   clock>>

\* handle_player_action, for a Started<PlayerAction>, with the spawn command
\* applied.
handle_player_action ==
    /\ phase = "PlayerAction"
    /\ player => nextEntity < MaxSpawns
    /\ IF player
       THEN /\ bodies' = bodies \cup
                  {BallBundle_new(nextEntity, spawn_transform(transform), clock)}
            /\ nextEntity' = nextEntity + 1
       ELSE UNCHANGED <<bodies, nextEntity>>
    /\ firesInTick' = IF player /\ firesInTick < 2 THEN firesInTick + 1
                      ELSE firesInTick
    /\ phase' = NextPhase(phase)
    /\ ran' = "handle_player_action"
    /\ UNCHANGED <<velocityWriters, player, movement, transform, velocity,
                   grounded, hits, clock>>

\* An alt-fire handler that falls back to Transform::default() when the
\* query finds no avatar.
handle_player_alt_action_unwrapped ==
    /\ phase = "PlayerAltAction"
    /\ nextEntity < MaxSpawns
    /\ bodies' = bodies \cup
          {CubeBundle_new(nextEntity,
              spawn_transform(IF player THEN transform
                              ELSE [translation |-> ZERO, rotation |-> IDENTITY]))}
    /\ nextEntity' = nextEntity + 1
    /\ phase' = NextPhase(phase)
    /\ ran' = "handle_player_alt_action"
    /\ UNCHANGED <<velocityWriters, firesInTick, player, movement, transform,
                   velocity, grounded, hits, clock>>

\* handle_player_alt_action, for a Started<PlayerAltAction>, with the spawn
\* command applied.
handle_player_alt_action ==
    /\ phase = "PlayerAltAction"
    /\ player => nextEntity < MaxSpawns
    /\ IF player
       THEN /\ bodies' = bodies \cup
                  {CubeBundle_new(nextEntity, spawn_transform(transform))}
            /\ nextEntity' = nextEntity + 1
       ELSE UNCHANGED <<bodies, nextEntity>>
    /\ phase' = NextPhase(phase)
    /\ ran' = "handle_player_alt_action"
    /\ UNCHANGED <<velocityWriters, firesInTick, player, movement, transform,
                   velocity, grounded, hits, clock>>

----------------------------------------------------------------------------
(* The sweeper of ball.rs. *)

\* Comparisons of the sweeper gone wrong: strict, and the wrong way round.
is_expired_strict(despawn_after, now) == despawn_after.value < now

is_expired_reversed(despawn_after, now) == despawn_after.value >= now

\* despawn_after.0 <= Utc::now()
is_expired(despawn_after, now) == despawn_after.value <= now

\* A query that matches every spawned entity, with or without DespawnAfter.
despawn_query_all(bs) == bs

\* The entities Query<(Entity, &DespawnAfter)> matches.
despawn_query(bs) == {b \in bs : b.despawn_after.some}

\* handle_despawn_after, run by FixedUpdate, with its despawn commands
\* applied.  The Utc::now() of every entity of one run reads the same
\* second.
handle_despawn_after ==
    /\ phase = "FixedUpdate"
    /\ bodies' = bodies \ {b \in despawn_query(bodies) :
                             is_expired(b.despawn_after, clock)}
    /\ firesInTick' = 0
    /\ phase' = NextPhase(phase)
    /\ ran' = "handle_despawn_after"
    /\ UNCHANGED <<velocityWriters, player, movement, transform, velocity,
                   grounded, hits, nextEntity, clock>>

----------------------------------------------------------------------------
(* The environment: the input layer, the frame loop, the physics engine    *)
(* and the wall clock.                                                     *)

\* A trigger that does not fire in this frame: its observer does not run.
NoTrigger ==
    /\ phase \in Triggers
    /\ phase' = NextPhase(phase)
    /\ ran' = "none"
    /\ UNCHANGED <<velocityWriters, firesInTick, player, movement, transform,
                   velocity, grounded, hits, bodies, nextEntity, clock>>

\* The fixed main loop has no (further) fixed tick to run in this frame.
RunUpdate ==
    /\ phase = "FixedUpdate"
    /\ phase' = "update_grounded"
    /\ ran' = "Update"
    /\ UNCHANGED <<velocityWriters, firesInTick, player, movement, transform,
                   velocity, grounded, hits, bodies, nextEntity, clock>>

\* The physics step that ends a fixed tick: it moves the avatar, changes
\* its vertical velocity (gravity, contacts) and writes the hits of the
\* ground caster.
PhysicsStep(hs, vy, translation) ==
    /\ phase = "FixedPostUpdate"
    /\ IF player
       THEN /\ hits' = hs
            /\ velocity' = [velocity EXCEPT !.y = vy]
            /\ transform' = [transform EXCEPT !.translation = translation]
       ELSE UNCHANGED <<hits, velocity, transform>>
    /\ phase' = NextPhase(phase)
    /\ ran' = "PhysicsStep"
    /\ UNCHANGED <<velocityWriters, firesInTick, player, movement, grounded,
                   bodies, nextEntity, clock>>

\* A second of wall-clock time passes.
TimePasses ==
    /\ clock < MaxTime
    /\ clock' = clock + 1
    /\ UNCHANGED <<velocityWriters, ran, firesInTick, player, movement,
                   transform, velocity, grounded, hits, bodies, nextEntity,
                   phase>>

----------------------------------------------------------------------------
(* The inputs of the model. *)

\* Pointer deltas, in 1/1000 pointer unit: none, a flick to the side that
\* turns the yaw by three quarters of a turn, and a move up or down that
\* turns the pitch by 2 rad or by 0.5 rad.
MouseDeltas ==
    {[x |-> dx, y |-> dy] : dx \in {0, FRAC_PI_2},
                            dy \in {0, 1000 * 1000, -(1000 * 1000),
                                    250 * 1000, -(250 * 1000)}}

NoMotion == [x |-> 0, y |-> 0]

\* The normal2 of a hit of the ground caster, in the caster's local space:
\* level ground below it, a 45 degree slope and a wall.
HitFlat == Vec3(0, -1000, 0)

HitSlope == Vec3(0, -707, 707)

HitWall == Vec3(1000, 0, 0)

HitSets == {{}, {HitFlat}, {HitWall}, {HitSlope, HitWall}, {HitFlat, HitWall}}

\* The vertical velocities the physics step leaves the avatar with.
FallSpeeds == {0, -2000}

\* The value of a Fired<PlayerMove>: forward, and back and to the left.
MoveIntents == {[x |-> 0, y |-> 1000], [x |-> -707, y |-> -707]}

\* Time::delta_secs_f64 of a frame, in milliseconds.
TimeDeltas == {100}

\* Where the avatar stands: at the origin (setup), or elsewhere.
Positions == {ZERO, Vec3(2000, 500, -3000)}

\* Poses of the avatar that the look updates reach.
Poses ==
    {[translation |-> p, rotation |-> from_euler(yaw, pitch, 0)] :
        p \in Positions, yaw \in {0, FRAC_PI_2},
        pitch \in {0, PITCH_LIMIT, 2 * 1000 * 1000 - PITCH_LIMIT}}

----------------------------------------------------------------------------
(* The controller: the avatar under look, move and jump input, the ground  *)
(* probe and the physics step.  No fire trigger is pressed, and the wall   *)
(* clock, which the controller never reads, stands still.                  *)

\* setup spawns the avatar at the origin, unturned and at rest.  An app
\* that adds PlayerPlugin without spawning a Player has no avatar.
Init ==
    /\ player \in BOOLEAN
    /\ movement \in (IF player THEN MovementBundles ELSE {MovementBundle_default})
    /\ transform = [translation |-> ZERO, rotation |-> IDENTITY]
    /\ velocity = ZERO
    /\ grounded = FALSE
    /\ hits = {}
    /\ bodies = {}
    /\ nextEntity = 0
    /\ clock = 0
    /\ phase = "PlayerJump"
    /\ ran = "setup"
    /\ firesInTick = 0
    /\ velocityWriters = {}

Next ==
    \/ handle_player_jump
    \/ \E intent \in MoveIntents, dt \in TimeDeltas : handle_player_move(intent, dt)
    \/ NoTrigger
    \/ handle_despawn_after
    \/ \E hs \in HitSets, vy \in FallSpeeds, p \in Positions : PhysicsStep(hs, vy, p)
    \/ RunUpdate
    \/ update_grounded
    \/ \E delta \in MouseDeltas : rotate_camera(delta)
    \/ apply_movement_damping

Spec == Init /\ [][Next]_vars

----------------------------------------------------------------------------
(* The spawned bodies: the avatar holds a pose while the fire and alt-fire *)
(* triggers, the sweeper and the wall clock run.                           *)

InitBodies ==
    /\ player \in BOOLEAN
    /\ movement = MovementBundle_default
    /\ transform \in (IF player THEN Poses
                      ELSE {[translation |-> ZERO, rotation |-> IDENTITY]})
    /\ velocity = ZERO
    /\ grounded = FALSE
    /\ hits = {}
    /\ bodies = {}
    /\ nextEntity = 0
    /\ clock = 0
    /\ phase = "PlayerJump"
    /\ ran = "setup"
    /\ firesInTick = 0
    /\ velocityWriters = {}

NextBodies ==
    \/ NoTrigger
    \/ handle_player_action
    \/ handle_player_alt_action
    \/ handle_despawn_after
    \/ PhysicsStep(hits, velocity.y, transform.translation)
    \/ RunUpdate
    \/ update_grounded
    \/ rotate_camera(NoMotion)
    \/ apply_movement_damping
    \/ TimePasses

SpecBodies == InitBodies /\ [][NextBodies]_vars

----------------------------------------------------------------------------
(* The damping pass: the avatar coasts.  No move trigger fires (the move   *)
(* intent is zero), no fire trigger is pressed and no fixed tick runs; the *)
(* jump trigger fires at will.                                             *)

\* The velocity the avatar coasts from, of either sign, down to the least
\* speed there is.
StartVelocities ==
    {Vec3(a, b, c) : a \in {0, 3000, -7}, b \in {0, -2000}, c \in {0, -10000, 1}}

InitDamping ==
    /\ player = TRUE
    /\ movement \in DampedBundles
    /\ transform = [translation |-> ZERO, rotation |-> IDENTITY]
    /\ velocity \in StartVelocities
    /\ grounded = FALSE
    /\ hits \in {{}, {HitFlat}}
    /\ bodies = {}
    /\ nextEntity = 0
    /\ clock = 0
    /\ phase = "PlayerJump"
    /\ ran = "setup"
    /\ firesInTick = 0
    /\ velocityWriters = {}

NextDamping ==
    \/ handle_player_jump
    \/ NoTrigger
    \/ RunUpdate
    \/ update_grounded
    \/ rotate_camera(NoMotion)
    \/ apply_movement_damping

SpecDamping == InitDamping /\ [][NextDamping]_vars

----------------------------------------------------------------------------
(* The whole application: every observer and system registered by main and *)
(* PlayerPlugin::build, with or without an avatar.  The input is kept      *)
(* small: one look flick, one move intent, level ground or none.           *)

\* A pointer move up that turns the pitch by 2 rad.
LookUp == [x |-> 0, y |-> -(1000 * 1000)]

InitApp ==
    /\ player \in BOOLEAN
    /\ movement = MovementBundle_default
    /\ transform = [translation |-> ZERO, rotation |-> IDENTITY]
    /\ velocity = ZERO
    /\ grounded = FALSE
    /\ hits = {}
    /\ bodies = {}
    /\ nextEntity = 0
    /\ clock = 0
    /\ phase = "PlayerJump"
    /\ ran = "setup"
    /\ firesInTick = 0
    /\ velocityWriters = {}

NextApp ==
    \/ handle_player_jump
    \/ \E dt \in TimeDeltas : handle_player_move([x |-> 0, y |-> 1000], dt)
    \/ handle_player_action
    \/ handle_player_alt_action
    \/ NoTrigger
    \/ handle_despawn_after
    \/ \E hs \in {{}, {HitFlat}}, vy \in FallSpeeds :
          PhysicsStep(hs, vy, transform.translation)
    \/ RunUpdate
    \/ update_grounded
    \/ \E delta \in {NoMotion, LookUp} : rotate_camera(delta)
    \/ apply_movement_damping
    \/ TimePasses

SpecApp == InitApp /\ [][NextApp]_vars

----------------------------------------------------------------------------
(* The move handler on every orientation a Transform can hold: the avatar  *)
(* is spawned at any of MovePoses, the pointer is at rest and the move     *)
(* trigger fires at will.                                                  *)

\* Orientations of a spawned avatar: level, pitched, at the pitch limit,
\* looking straight up or down, and rolled onto its side.
MovePoses ==
    {[translation |-> ZERO, rotation |-> from_euler(yaw, pitch, roll)] :
        yaw \in {0, FRAC_PI_2},
        pitch \in {0, 500 * 1000, PITCH_LIMIT, FRAC_PI_2, -FRAC_PI_2},
        roll \in {0, FRAC_PI_2}}

InitMove ==
    /\ player = TRUE
    /\ movement \in MovementBundles
    /\ transform \in MovePoses
    /\ velocity = ZERO
    /\ grounded = FALSE
    /\ hits = {}
    /\ bodies = {}
    /\ nextEntity = 0
    /\ clock = 0
    /\ phase = "PlayerJump"
    /\ ran = "setup"
    /\ firesInTick = 0
    /\ velocityWriters = {}

NextMove ==
    \/ \E intent \in MoveIntents, dt \in TimeDeltas : handle_player_move(intent, dt)
    \/ NoTrigger
    \/ RunUpdate
    \/ update_grounded
    \/ rotate_camera(NoMotion)
    \/ apply_movement_damping

SpecMove == InitMove /\ [][NextMove]_vars

----------------------------------------------------------------------------
(* The claims. *)

JumpStep == phase = "PlayerJump" /\ ran' = "handle_player_jump"

ProbeStep == phase = "update_grounded" /\ ran' = "update_grounded"

FireStep == phase = "PlayerAction" /\ ran' = "handle_player_action"

SweepStep == phase = "FixedUpdate" /\ ran' = "handle_despawn_after"

Balls(bs) == {b \in bs : b.bundle = "Ball"}

Cubes(bs) == {b \in bs : b.bundle = "Cube"}

\* Entities that were spawned and are no more.
Destroyed == (0 .. nextEntity - 1) \ Entities(bodies)

\* C1: handling a jump trigger sets the vertical velocity to exactly the
\* jump impulse when the avatar is grounded and leaves the whole velocity
\* as it was when it is not, whatever the velocity was.
C1_JumpGatedByGrounded ==
    [][(JumpStep /\ player) =>
          IF grounded
          THEN /\ velocity'.y = movement.jump_impulse
               /\ velocity'.x = velocity.x
               /\ velocity'.z = velocity.z
          ELSE velocity' = velocity]_vars

\* A jump was just handled on the ground and the vertical velocity is the
\* impulse.
C1_Witness ==
    /\ ran = "handle_player_jump" /\ phase = "PlayerMove"
    /\ player /\ grounded
    /\ velocity.y = movement.jump_impulse

\* C2: after the ground probe, the avatar is grounded iff some hit of this
\* tick has a world-space normal within the slope limit of world-up (any
\* hit when there is no limit, none when there are no hits); the flag of
\* the tick before plays no part.
C2_GroundedIffWalkableHit ==
    [][(ProbeStep /\ player) =>
          (grounded' <=>
             \E hit \in hits :
                \/ ~movement.max_slope_angle.some
                \/ angle_between(Rotate(transform.rotation, VNeg(hit)), Y)
                      <= movement.max_slope_angle.value)]_vars

\* The probe just ran with hits, all steeper than the limit, and left the
\* avatar airborne.
C2_Witness ==
    /\ ran = "update_grounded" /\ phase = "rotate_camera"
    /\ player /\ hits # {} /\ ~grounded
    /\ movement.max_slope_angle.some

\* C3: the pitch of the avatar stays within pi/2 - 0.01 of level.
C3_PitchWithinLimit ==
    player =>
       LET pitch == to_euler(transform.rotation)[2]
       IN  -(FRAC_PI_2 - 10000) <= pitch /\ pitch <= FRAC_PI_2 - 10000

\* A look update just clamped the pitch at the upper limit.
C3_Witness ==
    /\ ran = "rotate_camera" /\ player
    /\ to_euler(transform.rotation)[2] = FRAC_PI_2 - 10000

C5_ExpiredBallSwept ==
    [][SweepStep =>
          \A b \in bodies :
             (b.despawn_after.some /\ b.despawn_after.value <= clock)
                => b.entity \notin Entities(bodies')]_vars

\* The sweeper just ran at the very second of a ball's expiry, and the
\* ball is gone.
C5_Witness ==
    /\ ran = "handle_despawn_after" /\ phase = "FixedPostUpdate"
    /\ Destroyed # {}
    /\ clock = DESPAWN_SECONDS

\* C6: a ball is left in existence by every step, sweeps included, that
\* ends strictly before its expiry.
C6_UnexpiredBallKept ==
    [][\A b \in bodies :
          (b.despawn_after.some /\ clock' < b.despawn_after.value)
             => b \in bodies']_vars

\* The sweeper just ran over a ball that has lived for a while and has not
\* expired yet.
C6_Witness ==
    /\ ran = "handle_despawn_after" /\ phase = "FixedPostUpdate"
    /\ \E b \in Balls(bodies) :
          /\ clock < b.despawn_after.value
          /\ clock > b.despawn_after.value - DESPAWN_SECONDS

\* C7: a cube carries no expiry and no step, sweeps included, destroys it.
C7_CubeNeverSwept ==
    [][\A b \in Cubes(bodies) : ~b.despawn_after.some /\ b \in bodies']_vars

\* The sweeper just ran, later than a ball's lifetime after the start, a
\* ball has been destroyed and a cube is still there.
C7_Witness ==
    /\ ran = "handle_despawn_after" /\ phase = "FixedPostUpdate"
    /\ clock > DESPAWN_SECONDS
    /\ Destroyed # {}
    /\ Cubes(bodies) # {}

\* C8: the ball of a fire trigger is spawned at the avatar position plus
\* the forward vector plus an upward nudge.
C8_SpawnAheadAndNudgedUp ==
    [][(FireStep /\ player) =>
          \A b \in bodies' \ bodies :
             LET ahead == VAdd(transform.translation, Forward(transform))
                 at == b.transform.translation
             IN  at.x = ahead.x /\ at.z = ahead.z /\ at.y > ahead.y]_vars

\* C9: the expiry of the ball of a fire trigger is the time of the spawn,
\* on the clock the sweeper reads, plus 3 seconds.
C9_ExpiryIsSpawnTimePlusLifetime ==
    [][(FireStep /\ player) =>
          /\ bodies' # bodies
          /\ \A b \in bodies' \ bodies :
                b.despawn_after.some /\ b.despawn_after.value = clock + 3]_vars

\* A fire trigger was just handled some seconds after the start.
C9_Witness ==
    /\ ran = "handle_player_action" /\ phase = "PlayerAltAction"
    /\ clock > 0
    /\ \E b \in Balls(bodies) : b.despawn_after.value = clock + 3

\* C10: every fire trigger adds one body of its own and leaves the others
\* as they are, and a sweep destroys a body or keeps it by that body's
\* expiry alone.
C10_FiresMakeIndependentBodies ==
    [][/\ (FireStep /\ player) =>
             \E b \in bodies' :
                /\ b.entity \notin Entities(bodies)
                /\ bodies' = bodies \cup {b}
                /\ Cardinality(Entities(bodies')) = Cardinality(bodies')
       /\ SweepStep =>
             \A b \in bodies :
                b \in bodies' <=>
                   ~(b.despawn_after.some /\ b.despawn_after.value <= clock)]_vars

\* Two fire triggers were handled within one fixed tick, and their two
\* balls exist with expiries of their own.
C10_Witness ==
    /\ firesInTick = 2
    /\ \E b1, b2 \in Balls(bodies) :
          /\ b1.entity # b2.entity
          /\ b1.despawn_after # b2.despawn_after

DampStep == phase = "apply_movement_damping" /\ ran' = "apply_movement_damping"

\* The square of the horizontal speed.
HSpeed2(v) == v.x * v.x + v.z * v.z

\* C11, as stated: with zero move intent and a damping factor in (0,1),
\* the horizontal speed strictly decreases from each tick to the next
\* while it is not zero, and never becomes negative.
C11_SpeedStrictlyDecreases ==
    [][(DampStep /\ player /\ movement.damping > 0 /\ movement.damping < 1000
           /\ HSpeed2(velocity) # 0) =>
          /\ HSpeed2(velocity') < HSpeed2(velocity)
          /\ HSpeed2(velocity') >= 0]_vars

\* C11, amended: with zero move intent and a damping factor in (0,1), no
\* horizontal component grows or changes sign from one tick to the next,
\* so the horizontal speed never grows and never becomes negative; it
\* strictly decreases while a component is large enough (1000 times the
\* least speed) for the rounded product to differ from it.
C11_SpeedNeverGrows ==
    [][(DampStep /\ player /\ movement.damping > 0 /\ movement.damping < 1000) =>
          /\ Abs(velocity'.x) <= Abs(velocity.x) /\ velocity'.x * velocity.x >= 0
          /\ Abs(velocity'.z) <= Abs(velocity.z) /\ velocity'.z * velocity.z >= 0
          /\ HSpeed2(velocity') <= HSpeed2(velocity)
          /\ (Abs(velocity.x) >= 1000 \/ Abs(velocity.z) >= 1000) =>
                 HSpeed2(velocity') < HSpeed2(velocity)]_vars

\* The damping pass has just run with a factor in (0,1) on an avatar still
\* coasting fast.
C11_Witness ==
    /\ ran = "apply_movement_damping" /\ player
    /\ movement.damping > 0 /\ movement.damping < 1000
    /\ Abs(velocity.z) >= 1000

\* C12: the damping pass never alters the vertical velocity, whatever the
\* velocity and the damping factor.
C12_DampingKeepsVerticalVelocity ==
    [][DampStep => velocity'.y = velocity.y]_vars

\* The damping pass has just run with a factor of 0.4 on an avatar that
\* moves both sideways and vertically.
C12_Witness ==
    /\ ran = "apply_movement_damping" /\ player
    /\ movement.damping = 400
    /\ velocity.x # 0 /\ velocity.y # 0

MoveStep == phase = "PlayerMove" /\ ran' = "handle_player_move"

\* The horizontal velocity a move of value `intent` adds over `time_delta`
\* at a heading of `yaw`: forward and right, flattened and renormalized,
\* are the directions of the yaw alone.
MoveDelta(intent, time_delta, acceleration, yaw) ==
    LET forward == RotY(yaw, Vec3(0, 0, -1000))
        right == RotY(yaw, Vec3(1000, 0, 0))
        relx == RoundDiv(intent.y * forward.x + intent.x * right.x, 1000)
        relz == RoundDiv(intent.y * forward.z + intent.x * right.z, 1000)
    IN  Vec3(RoundDiv(relx * acceleration * time_delta, 1000), 0,
             RoundDiv(relz * acceleration * time_delta, 1000))

\* C13: handling a move trigger adds (intent.y * forward + intent.x *
\* right) * acceleration * dt to the horizontal velocity, forward and right
\* taken flat and of unit length whatever the pitch, and leaves the
\* vertical velocity as it was.  With acceleration 100, dt 0.1 and the
\* identity orientation, intent (0,1) adds (0, 0, -10).
C13_MoveAddsIntentTimesAcceleration ==
    [][(MoveStep /\ player) =>
          /\ \E intent \in MoveIntents, dt \in TimeDeltas :
                velocity' = VAdd(velocity,
                                 MoveDelta(intent, dt, movement.acceleration,
                                           transform.rotation.yaw))
          /\ (transform.rotation = IDENTITY /\ movement.acceleration = 100) =>
                \/ velocity' = VAdd(velocity, Vec3(0, 0, -10000))
                \/ velocity' = VAdd(velocity, Vec3(-7070, 0, 7070))]_vars

\* A move forward was just handled by an unturned avatar of acceleration
\* 100 that stood still: its velocity is (0, y, -10).
C13_Witness ==
    /\ ran = "handle_player_move" /\ player
    /\ transform.rotation = IDENTITY /\ movement.acceleration = 100
    /\ velocity.x = 0 /\ velocity.z = -10000

\* A move was just handled by an avatar that looks up or down.
C13_WitnessPitched ==
    /\ ran = "handle_player_move" /\ player
    /\ transform.rotation.pitch # 0
    /\ velocity.x # 0

\* C14: while no avatar exists, each of the look, move, jump, ground probe,
\* fire and alt-fire systems skips its work: it returns without failing,
\* no state changes and no body is spawned.
C14_NoAvatarNothingHappens ==
    [][~player =>
          /\ UNCHANGED <<player, movement, transform, velocity, grounded, hits,
                         bodies, nextEntity, velocityWriters, firesInTick>>
          /\ phase = "PlayerJump" => ENABLED handle_player_jump
          /\ phase = "PlayerMove" =>
                ENABLED handle_player_move([x |-> 0, y |-> 1000], 100)
          /\ phase = "PlayerAction" => ENABLED handle_player_action
          /\ phase = "PlayerAltAction" => ENABLED handle_player_alt_action
          /\ phase = "update_grounded" => ENABLED update_grounded
          /\ phase = "rotate_camera" => ENABLED rotate_camera(LookUp)]_vars

\* The alt-fire trigger was just handled in a world without avatar, and
\* nothing was ever spawned.
C14_Witness ==
    /\ ~player /\ ran = "handle_player_alt_action"
    /\ bodies = {} /\ nextEntity = 0

\* C15: a jump trigger that arrives while the avatar is airborne is
\* dropped, not buffered: its step leaves the velocity alone, and on no
\* later step does the controller make the avatar jump unless that step
\* is a jump trigger handled while grounded.  (The physics step alone also
\* writes the vertical velocity.)
C15_AirborneJumpIsDropped ==
    [][player =>
          /\ (JumpStep /\ ~grounded) => velocity' = velocity
          /\ (velocity'.y # velocity.y /\ ran' # "PhysicsStep") =>
                (JumpStep /\ grounded /\ velocity'.y = movement.jump_impulse)]_vars

\* A jump trigger was just handled while the avatar was falling through
\* the air, and the avatar still falls.
C15_Witness ==
    /\ ran = "handle_player_jump" /\ player /\ ~grounded
    /\ velocity.y = -2000

LookStep == phase = "rotate_camera" /\ ran' = "rotate_camera"

\* C16: within every tick the stages run in the order look update
\* (rotate_camera), then ground probe (update_grounded), then the damping
\* pass: the probe follows the look update at once and the damping pass
\* follows the probe at once.
C16_LookThenProbeThenDamping ==
    [][/\ LookStep => phase' = "update_grounded"
       /\ ProbeStep => phase' = "apply_movement_damping"]_vars

\* The ground probe of the running frame has run: the frame is past
\* update_grounded in the chain of Update.
ProbeRanThisFrame == phase \in {"rotate_camera", "apply_movement_damping"}

\* C17: the jump handler never acts on a stale grounded value: when it
\* commits a jump, the flag it reads was computed by the ground probe of
\* the same tick.
C17_JumpReadsFreshGrounded ==
    [][(JumpStep /\ player /\ grounded) => ProbeRanThisFrame]_vars

\* C18, as stated: in any single tick each mutable field of the avatar
\* (transform, velocity, grounded flag) is written by at most one stage: no
\* two of the look update, the ground probe, the move handler, the jump
\* handler and the damping pass write the same field in the same tick.
C18_OneWriterPerField ==
    [][player =>
          /\ Cardinality(velocityWriters') <= 1
          /\ DampStep => velocityWriters = {}
          /\ transform'.rotation # transform.rotation => LookStep
          /\ grounded' # grounded => ProbeStep]_vars

\* C18, amended: in any single tick the rotation of the transform is
\* written by the look update alone, the grounded flag by the ground probe
\* alone, the vertical velocity by the jump handler alone (and the physics
\* step) and the horizontal velocity by the move handler and the damping
\* pass alone.
C18_OneOwnerPerComponent ==
    [][player =>
          /\ transform'.rotation # transform.rotation => LookStep
          /\ grounded' # grounded => ProbeStep
          /\ velocity'.y # velocity.y => (JumpStep \/ ran' = "PhysicsStep")
          /\ (velocity'.x # velocity.x \/ velocity'.z # velocity.z) =>
                (MoveStep \/ DampStep)]_vars

\* The move handler has just written the velocity that the jump handler
\* wrote earlier in the same frame; the damping pass is still to come.
C18_Witness ==
    /\ ran = "handle_player_move" /\ player
    /\ velocityWriters = {"handle_player_jump", "handle_player_move"}
    /\ velocity.y = movement.jump_impulse /\ velocity.x # 0

\* The horizontal projection of forward or of right has zero length.
FlatDirectionIsZero(t) ==
    \/ Length([Forward(t) EXCEPT !.y = 0]) = 0
    \/ Length([Right(t) EXCEPT !.y = 0]) = 0

AltFireStep == phase = "PlayerAltAction" /\ ran' = "handle_player_alt_action"

\* C20: handling a fire or an alt-fire trigger leaves the avatar's
\* transform, velocity and grounded flag as they were (the spawn pose is
\* computed on a copy of the transform); its only effect is one newly
\* created body.
C20_FireLeavesAvatarAlone ==
    [][((FireStep \/ AltFireStep) /\ player) =>
          /\ UNCHANGED <<transform, velocity, grounded, movement, hits>>
          /\ bodies \subseteq bodies'
          /\ Cardinality(bodies' \ bodies) = 1]_vars

\* An alt-fire trigger was just handled by an avatar that is grounded,
\* looks up and moves, with a body spawned before.
C20_Witness ==
    /\ ran = "handle_player_alt_action" /\ player /\ grounded
    /\ transform.rotation.pitch # 0 /\ velocity.z # 0
    /\ Cardinality(bodies) = 2

====
